---- MODULE Spec2Model ----
(***************************************************************************)
(* PiFire integration: the data update coordinator, the API client, the    *)
(* command entities and the sensor discovery manager, as a state machine.  *)
(*                                                                         *)
(* PiFireDataUpdateCoordinator extends Home Assistant's                    *)
(* DataUpdateCoordinator.  The inherited refresh machinery (refresh timer, *)
(* request debouncer, listener notification, first refresh) is modelled as *)
(* the base class executes it for the arguments given in super().__init__. *)
(***************************************************************************)
EXTENDS Integers, Sequences, FiniteSets, TLC

\* ---------------------------------------------------------------- bounds
\* Poll cycles that may be in flight at once.
MaxCycles == 2
\* Command handlers that may be running at once.
MaxActiveCmds == 1
\* discover_from_payload calls on one manager (ScanSpec).
MaxScans == 3

\* ------------------------------------------------------------- constants
FAST_UPDATE_INTERVAL == 5
SLOW_UPDATE_INTERVAL == 30
FAST_UPDATE_MODES == {"startup", "smoke", "monitor", "hold"}
PLATFORMS == <<"sensor", "select", "number", "button", "switch", "binary_sensor">>

\* No refresh timer armed (self._unsub_refresh is None).
NoTimer == 0

\* ------------------------------------------------------- payload values
\* A JSON value that is missing (key absent) or null is written as one of
\* the two marker strings; every other mode value is the string itself.
ABSENT == "<absent>"
NULL == "<null>"

\* Mode strings the device is taken to send, with their str.lower() image.
ModeStrings == {"stop", "Stop", "hold", "Hold", "smoke", "startup", "monitor", "shutdown"}

Lower(s) ==
    CASE s \in {"Stop", "STOP"} -> "stop"
      [] s = "Hold" -> "hold"
      [] OTHER -> s

\* Raw JSON values of a temperature field: the key missing, null, the numbers
\* 0, 150 and 225, the strings "225", "unknown", "Unknown" and "abc", a list.
TempRaws ==
    {ABSENT, NULL, "n:0", "n:150", "n:225", "s:225", "s:unknown", "s:Unknown", "s:abc",
     "list"}

\* A derived value: a number, None, or an exception leaving the property.
Some(v) == [kind |-> "value", val |-> v]
None == [kind |-> "none", val |-> 0]
Raises == [kind |-> "raises", val |-> 0]

\* No payload looked at yet, nothing derived yet.
NoRaw == [status |-> "none"]
NoView == [derived |-> FALSE]

\* PiFireTemperatureSetpoint before it is added, and once constructed.
NotAdded == [added |-> FALSE, last_set_value |-> None, pc |-> "idle", value |-> 0]

\* No config entry yet.
NoEntry == [name |-> "<none>"]

\* No handler has run yet.
NoWire ==
    [caller |-> "none", arg |-> "", sent |-> FALSE, requests |-> <<>>, outcome |-> "none",
     refresh |-> FALSE]

\* Probe labels, and Python's order on them (code point order).
Labels == {"Grill", "Probe1", "Probe2", "grill"}

LabelRank(l) ==
    CASE l = "Grill" -> 1
      [] l = "Probe1" -> 2
      [] l = "Probe2" -> 3
      [] l = "grill" -> 4

\* str.lower() on a label.
LabelLower(l) ==
    CASE l = "Grill" -> "grill"
      [] l = "Probe1" -> "probe1"
      [] l = "Probe2" -> "probe2"
      [] OTHER -> l

\* f"probe:{label}"
ProbeKey(l) ==
    CASE l = "Grill" -> "probe:Grill"
      [] l = "Probe1" -> "probe:Probe1"
      [] l = "Probe2" -> "probe:Probe2"
      [] l = "grill" -> "probe:grill"

DiscoveryKeys == {"recipe", "runtime", "pellet_level"} \cup { ProbeKey(l) : l \in Labels }

\* coordinator.data before the first successful refresh (None).
NoData == [status |-> "none"]

\* The dict get_current returns: the status section ("map", "null" when the
\* key holds null, "absent" when the key is missing), status.mode,
\* the labels status.probe_status marks enabled (in iteration order), and the
\* key sets of current.F, current.NT and current.P.
Payload(st, m, en, f, nt, p) ==
    [status |-> st, mode |-> m, enabled |-> en, F |-> f, NT |-> nt, P |-> p,
     hopper |-> "absent"]

\* What /api/current answers in the specification Spec.
CurrentPayloads ==
    { Payload("map", m, <<>>, {}, {}, {"Grill"}) : m \in {"stop", "Hold"} }

\* What /api/current answers in the specification PollSpec: every fast mode,
\* other modes, mixed case, a missing or null mode, a missing or null status
\* section; no probe, the grill probe, a food probe coming and going.
PollPayloads ==
    { Payload("map", m, <<>>, f, {}, p) :
        m \in {"stop", "Hold", "hold", "smoke", "startup", "monitor", "shutdown", ABSENT, NULL},
        f \in {{}, {"Probe1"}}, p \in {{}, {"Grill"}} }
    \cup { Payload(st, ABSENT, <<>>, {}, {}, {"Grill"}) : st \in {"absent", "null"} }

\* What /api/hopper answers: a transport or HTTP error, {} , a dict without
\* hopper_level, a dict with hopper_level.
HopperResponses == {"error", "empty", "nolevel", "level"}

\* The one the specification Spec draws from.
SomeHopperResponses == {"level"}

VARIABLES
    setup_pc,            \* position of async_setup_entry
    hass_data,           \* hass.data[DOMAIN] holds the entry
    update_interval,     \* coordinator.update_interval (seconds)
    data,                \* coordinator.data
    last_update_success, \* coordinator.last_update_success
    listeners,           \* coordinator._listeners, in registration order
    unsub_refresh,       \* the armed refresh timer: its delay, or NoTimer
    debouncer,           \* coordinator._debounced_refresh
    cycles,              \* poll cycles in flight (_async_refresh calls), in
                         \* the order they began
    cmds,                \* command handlers in flight
    created,             \* _SensorManager._created
    announced,           \* per discovery key: entities handed to async_add_entities
    notified,            \* listeners called by the cycle that ended last
    last_cycle,          \* how the cycle that ended last ended
    scenario,            \* PollSpec: the intervals after each successful poll
                         \* of a run with the modes of ModeSeq
    scans,               \* ScanSpec: discover_from_payload calls made so far
    last_added,          \* ScanSpec: the keys the last call announced, in order
    raw,                 \* ValueSpec, StatusSpec: the raw fields of the payload
                         \* in coordinator.data
    view,                \* ValueSpec, StatusSpec: what the entities derive from
                         \* them
    entry_data,          \* RequestSpec: the config entry's data
    grams_state,         \* RequestSpec: the state of the prime-pellets grams
                         \* number entity in the state machine
    wire,                \* RequestSpec: the last command handled, the request it
                         \* sent and how the handler ended
    setpoint_entity      \* SetpointSpec: PiFireTemperatureSetpoint, its
                         \* _last_set_value and its handler's position

\* The variables only ScanSpec changes.
scan_vars == <<scans, last_added>>

\* The variables only ValueSpec changes.
value_vars == <<raw, view>>

\* The variables only RequestSpec changes.
request_vars == <<entry_data, grams_state, wire, setpoint_entity>>

vars == <<setup_pc, hass_data, update_interval, data, last_update_success,
          listeners, unsub_refresh, debouncer, cycles, cmds, created,
          announced, notified, last_cycle, scenario, scan_vars, value_vars, request_vars>>

\* ------------------------------------------------------------ discovery
\* The sort key x alone.
PlainKey(l) == LabelRank(l)

\* The sort key of line 139, (x.lower() != "grill", x), as one number.
GrillFirstKey(l) == (IF LabelLower(l) # "grill" THEN 10 ELSE 0) + LabelRank(l)

\* sorted(seq, key=lambda x: (x.lower() != "grill", x)): stable, ascending.
RECURSIVE InsertGrillFirst(_, _)
InsertGrillFirst(x, seq) ==
    IF seq = <<>> THEN <<x>>
    ELSE IF GrillFirstKey(x) < GrillFirstKey(Head(seq)) THEN <<x>> \o seq
    ELSE <<Head(seq)>> \o InsertGrillFirst(x, Tail(seq))

RECURSIVE SortedGrillFirst(_)
SortedGrillFirst(seq) ==
    IF seq = <<>> THEN <<>>
    ELSE InsertGrillFirst(seq[Len(seq)], SortedGrillFirst(SubSeq(seq, 1, Len(seq) - 1)))

\* sorted(set(...)) of line 133: a set of labels as an ascending list.
RECURSIVE SortedLabels(_)
SortedLabels(S) ==
    IF S = {} THEN <<>>
    ELSE LET m == CHOOSE x \in S : \A y \in S : LabelRank(x) <= LabelRank(y)
         IN <<m>> \o SortedLabels(S \ {m})

\* enabled_labels_sorted without the fallback of lines 132-135.
enabled_labels_no_fallback(payload) == SortedGrillFirst(payload.enabled)

\* Lines 121-140: the labels probe_status marks enabled, or, when there are
\* none, every label of F, NT and P sorted; then Grill first.
enabled_labels_sorted(payload) ==
    LET enabled_labels ==
            IF payload.enabled # <<>> THEN payload.enabled
            ELSE SortedLabels(payload.F \cup payload.NT \cup payload.P)
    IN SortedGrillFirst(enabled_labels)

\* new_probe_labels without the test of line 150 on _created.
RECURSIVE new_probe_labels_unchecked(_, _, _)
new_probe_labels_unchecked(labels, payload, cr) ==
    IF labels = <<>> THEN <<>>
    ELSE LET label == Head(labels)
             exists == label \in payload.F \/ label \in payload.NT \/ label \in payload.P
         IN IF exists
            THEN <<label>> \o new_probe_labels_unchecked(Tail(labels), payload, cr)
            ELSE new_probe_labels_unchecked(Tail(labels), payload, cr)

\* Lines 142-168: the loop over the sorted labels; returns the labels of the
\* entities appended to new_entities, in order.
RECURSIVE new_probe_labels(_, _, _)
new_probe_labels(labels, payload, cr) ==
    IF labels = <<>> THEN <<>>
    ELSE LET label == Head(labels)
             exists == label \in payload.F \/ label \in payload.NT \/ label \in payload.P
         IN IF exists /\ ProbeKey(label) \notin cr
            THEN <<label>> \o new_probe_labels(Tail(labels), payload, cr \cup {ProbeKey(label)})
            ELSE new_probe_labels(Tail(labels), payload, cr)

SeqRange(seq) == { seq[i] : i \in 1..Len(seq) }

\* add_single without the membership test on _created.
add_single_unchecked(key, wanted, st, raises) ==
    IF wanted /\ key \notin raises
    THEN [st EXCEPT !.created = @ \cup {key}, !.added = Append(@, key)]
    ELSE st

\* add_single when the key is not recorded in _created.
add_single_unrecorded(key, wanted, st, raises) ==
    IF wanted /\ key \notin st.created /\ key \notin raises
    THEN [st EXCEPT !.added = Append(@, key)]
    ELSE st

\* One of the three single-entity blocks (recipe, runtime, pellet level):
\* the key is recorded only when async_add_entities returned.
add_single(key, wanted, st, raises) ==
    IF wanted /\ key \notin st.created /\ key \notin raises
    THEN [st EXCEPT !.created = @ \cup {key}, !.added = Append(@, key)]
    ELSE st

\* has_hopper_level when any hopper section will do.
has_hopper_section(payload) == payload.hopper # "absent"

\* Lines 102-104: the hopper section is a dict with the key hopper_level
\* ("level": a numeric value; "badlevel": null or another non-numeric value).
has_hopper_level(payload) == payload.hopper \in {"level", "badlevel"}

\* _SensorManager.discover_from_payload(payload) on a manager whose _created
\* is cr.  raises: the async_add_entities calls that raise ("recipe",
\* "runtime", "pellet_level", "probes").  Returns the new _created, the keys
\* whose entities async_add_entities accepted (in call order) and whether the
\* call itself raised.
discover_from_payload(payload, cr, raises) ==
    IF payload = NoData THEN [created |-> cr, added |-> <<>>, raised |-> FALSE]
    ELSE
    LET s0 == [created |-> cr, added |-> <<>>, raised |-> FALSE]
        s1 == add_single("recipe", TRUE, s0, raises)
        s2 == add_single("runtime", TRUE, s1, raises)
        s3 == add_single("pellet_level", has_hopper_level(payload), s2, raises)
        new == new_probe_labels(enabled_labels_sorted(payload), payload, s3.created)
        keys == [i \in 1..Len(new) |-> ProbeKey(new[i])]
    IN IF new = <<>> THEN s3
       ELSE IF "probes" \in raises
            THEN [created |-> s3.created \cup SeqRange(keys), added |-> s3.added, raised |-> TRUE]
            ELSE [created |-> s3.created \cup SeqRange(keys), added |-> s3.added \o keys,
                  raised |-> FALSE]

\* ---------------------------------------------------------- API client
\* get_hopper_data without its except clause: the error reaches the caller.
get_hopper_data_unguarded(resp) == resp

\* PiFireClient.get_hopper_data: the dict it returns for an answer of
\* /api/hopper; any exception becomes {}.
get_hopper_data(resp) == IF resp = "error" THEN "empty" ELSE resp

\* ------------------------------------------------------------ coordinator
\* The stored payload updated in place: only its hopper section is set.
combined_data_in_place(current_data, hopper_data) ==
    IF data = NoData THEN [current_data EXCEPT !.hopper = hopper_data]
    ELSE [data EXCEPT !.hopper = hopper_data]

\* Lines 49-52: combined_data = current_data.copy(), with the hopper section
\* set when hopper_data is not empty.
combined_data(current_data, hopper_data) ==
    IF hopper_data # "empty" THEN [current_data EXCEPT !.hopper = hopper_data]
    ELSE current_data

\* Lines 64-65 raise (AttributeError) when status is not a dict or mode is
\* not a string; line 83 catches it.
adjust_raises(d) == d.status = "null" \/ (d.status = "map" /\ d.mode = NULL)

\* Line 65: status.get("mode", "").lower()
current_mode(d) ==
    IF d.status = "absent" \/ d.mode = ABSENT THEN "" ELSE Lower(d.mode)

\* Lines 68-71
required_interval(d) ==
    IF current_mode(d) \in FAST_UPDATE_MODES THEN FAST_UPDATE_INTERVAL
    ELSE SLOW_UPDATE_INTERVAL

\* _adjust_update_interval: the update interval after the call.
adjust_update_interval(interval, d) ==
    IF adjust_raises(d) THEN interval ELSE required_interval(d)

\* calls_listeners when only a successful refresh calls the listeners.
calls_listeners_on_success(ok, prev_ok) == ok

\* Base class, end of _async_refresh: listeners are called unless this
\* refresh failed and the coordinator was already failed when it began.
calls_listeners(ok, prev_ok) == ok \/ prev_ok

\* schedule_refresh arming the timer with the interval the coordinator had
\* before _adjust_update_interval ran.
schedule_refresh_stale(timer, interval, ls) == IF ls # <<>> THEN update_interval ELSE timer

\* Base class, _schedule_refresh in the finally block of _async_refresh:
\* with listeners, the timer is armed anew with the interval of that moment.
schedule_refresh(timer, interval, ls) == IF ls # <<>> THEN interval ELSE timer

\* refresh_finally as an else block: a failed refresh arms no timer.
refresh_finally_on_success(ok, timer, interval, ls) ==
    IF ok /\ ls # <<>> THEN interval ELSE timer

\* Base class, the finally block of _async_refresh: it runs whether the
\* update succeeded (ok) or raised UpdateFailed.
refresh_finally(ok, timer, interval, ls) == schedule_refresh(timer, interval, ls)

\* first_refresh_result when a failed first refresh is swallowed.
first_refresh_swallowed(ok) == "refreshed"

\* Base class, async_config_entry_first_refresh: returns when the first
\* refresh succeeded, raises ConfigEntryNotReady when it failed; where that
\* leaves async_setup_entry.
first_refresh_result(ok) == IF ok THEN "refreshed" ELSE "not_ready"

\* Listeners in registration order: the sensor platform's _on_update, then
\* the entities the other platforms add (the four relay sensors as one; the
\* sensor entities discovery adds later are left out).
PlatformListeners ==
    <<"sensor._on_update", "select.mode", "select.pmode", "number.setpoint",
      "switch.pmode", "switch.smoke_plus", "binary_sensor.relays">>

Cyc == 1..MaxCycles

InFlight == DOMAIN cycles

\* The cycles in flight once cycle c has ended.
WithoutCycle(c) ==
    [i \in 1..(Len(cycles) - 1) |-> IF i < c THEN cycles[i] ELSE cycles[i + 1]]

\* Entities that send control commands (the climate platform is not in
\* PLATFORMS, so no thermostat entity exists).
Callers ==
    {"select.mode", "select.pmode", "switch.pmode", "switch.smoke_plus",
     "number.setpoint", "button.prime"}

\* A command handler: its position, the requests it sent, whether it called
\* async_request_refresh, whether its device request failed.
CmdIdle == [pc |-> "idle", sent |-> 0, refreshed |-> FALSE, failed |-> FALSE]

DebouncerIdle == [locked |-> FALSE, timer |-> FALSE, pending |-> FALSE]

\* The run of successful polls of the interval scenario, and the marker for
\* a run that left it.
ModeSeq == <<"stop", "hold", "hold", "stop">>
OffScenario == <<0>>

scenario_step(sc, d, interval) ==
    IF sc = OffScenario \/ Len(sc) = Len(ModeSeq) THEN sc
    ELSE IF d.status = "map" /\ d.mode \in ModeStrings /\ Lower(d.mode) = ModeSeq[Len(sc) + 1]
         THEN Append(sc, interval)
         ELSE OffScenario

Announce(ann, keys) ==
    [k \in DOMAIN ann |-> ann[k] + Cardinality({ i \in 1..Len(keys) : keys[i] = k })]

Init ==
    /\ setup_pc = "start"
    /\ hass_data = FALSE
    /\ update_interval = SLOW_UPDATE_INTERVAL
    /\ data = NoData
    /\ last_update_success = TRUE
    /\ listeners = <<>>
    /\ unsub_refresh = NoTimer
    /\ debouncer = DebouncerIdle
    /\ cycles = <<>>
    /\ cmds = [k \in Callers |-> CmdIdle]
    /\ created = {}
    /\ announced = [k \in DiscoveryKeys |-> 0]
    /\ notified = <<>>
    /\ last_cycle = [result |-> "none", hopper |-> "none"]
    /\ scenario = <<>>
    /\ scans = 0
    /\ last_added = <<>>
    /\ raw = NoRaw
    /\ view = NoView
    /\ entry_data = NoEntry
    /\ grams_state = "<none>"
    /\ wire = NoWire
    /\ setpoint_entity = NotAdded

\* Base class, the head of _async_refresh up to the await of
\* _async_update_data: the refresh timer and the debouncer's timer are
\* cancelled and the success flag is remembered.  deb is the debouncer as the
\* caller left it.
begin_refresh(origin, owner, deb) ==
    /\ Len(cycles) < MaxCycles
    /\ unsub_refresh' = NoTimer
    /\ debouncer' = [deb EXCEPT !.timer = FALSE, !.pending = FALSE]
    /\ cycles' = Append(cycles,
                    [stage |-> "get_current", origin |-> origin, owner |-> owner,
                     prev_ok |-> last_update_success, current_data |-> NoData])

\* Base class, _async_refresh from the return (or raise) of
\* _async_update_data to its end, followed by what the awaiting caller does
\* without a further await: the debouncer starts its cooldown and releases
\* its lock, the command handler returns, async_config_entry_first_refresh
\* returns or raises ConfigEntryNotReady.
end_refresh(c, ok, new_data, new_interval, hopper_resp, sc) ==
    LET cyc == cycles[c]
        called == IF calls_listeners(ok, cyc.prev_ok) THEN listeners ELSE <<>>
        disc == discover_from_payload(new_data, created, {})
        scan == called # <<>>
    IN /\ data' = new_data
       /\ update_interval' = new_interval
       /\ last_update_success' = ok
       /\ unsub_refresh' = refresh_finally(ok, unsub_refresh, new_interval, listeners)
       /\ notified' = called
       /\ created' = IF scan THEN disc.created ELSE created
       /\ announced' = IF scan THEN Announce(announced, disc.added) ELSE announced
       /\ cycles' = WithoutCycle(c)
       /\ debouncer' = IF cyc.origin = "requested"
                       THEN [debouncer EXCEPT !.locked = FALSE, !.timer = TRUE]
                       ELSE debouncer
       /\ cmds' = IF cyc.owner # "none"
                  THEN [cmds EXCEPT ![cyc.owner].pc = "ret_ok"]
                  ELSE cmds
       /\ setup_pc' = IF cyc.origin = "first" THEN first_refresh_result(ok) ELSE setup_pc
       /\ last_cycle' = [result |-> IF ok THEN "ok" ELSE "failed", hopper |-> hopper_resp]
       /\ scenario' = sc
       /\ UNCHANGED <<hass_data, listeners, scan_vars, value_vars, request_vars>>

\* async_setup_entry, lines 89-94: the coordinator is constructed and the
\* first refresh begins.
FirstRefresh ==
    /\ setup_pc = "start"
    /\ setup_pc' = "first_refresh"
    /\ begin_refresh("first", "none", debouncer)
    /\ UNCHANGED <<hass_data, update_interval, data, last_update_success, listeners,
                   cmds, created, announced, notified, last_cycle, scenario, scan_vars, value_vars, request_vars>>

\* The refresh timer fires: _handle_refresh_interval.
TimerFires ==
    /\ unsub_refresh # NoTimer
    /\ begin_refresh("scheduled", "none", debouncer)
    /\ UNCHANGED <<setup_pc, hass_data, update_interval, data, last_update_success,
                   listeners, cmds, created, announced, notified, last_cycle, scenario, scan_vars, value_vars, request_vars>>

\* get_current raises (transport error, HTTP error, undecodable body):
\* _async_update_data raises UpdateFailed.
GetCurrentFails(c) ==
    /\ c \in InFlight
    /\ cycles[c].stage = "get_current"
    /\ end_refresh(c, FALSE, data, update_interval, "none", scenario)

\* get_current returns the payload p.
GetCurrentReturns(c, p) ==
    /\ c \in InFlight
    /\ cycles[c].stage = "get_current"
    /\ cycles' = [cycles EXCEPT ![c].stage = "get_hopper", ![c].current_data = p]
    /\ UNCHANGED <<setup_pc, hass_data, update_interval, data, last_update_success,
                   listeners, unsub_refresh, debouncer, cmds, created, announced,
                   notified, last_cycle, scenario, scan_vars, value_vars, request_vars>>

\* /api/hopper answers h: _async_update_data combines, adjusts the interval
\* and returns; the refresh ends successfully.  track: the answer and the
\* interval scenario are recorded (PollSpec).
GetHopperReturns(c, h, track) ==
    /\ c \in InFlight
    /\ cycles[c].stage = "get_hopper"
    /\ LET d == combined_data(cycles[c].current_data, get_hopper_data(h))
           i == adjust_update_interval(update_interval, d)
       IN end_refresh(c, TRUE, d, i, IF track THEN h ELSE "none",
                      IF track THEN scenario_step(scenario, d, i) ELSE scenario)

\* async_setup_entry, lines 96-109, after the first refresh returned.
RegisterEntry ==
    /\ setup_pc = "refreshed"
    /\ hass_data' = TRUE
    /\ setup_pc' = "registered"
    /\ UNCHANGED <<update_interval, data, last_update_success, listeners, unsub_refresh,
                   debouncer, cycles, cmds, created, announced, notified, last_cycle,
                   scenario, scan_vars, value_vars, request_vars>>

\* async_setup_entry, line 111: the platforms are set up.  The sensor
\* platform scans coordinator.data and subscribes _on_update; the first
\* listener arms the refresh timer; the entities subscribe.
ForwardPlatforms ==
    /\ setup_pc = "registered"
    /\ setup_pc' = "loaded"
    /\ LET disc == discover_from_payload(data, created, {})
       IN /\ created' = disc.created
          /\ announced' = Announce(announced, disc.added)
    /\ listeners' = PlatformListeners
    /\ unsub_refresh' = schedule_refresh(unsub_refresh, update_interval, PlatformListeners)
    /\ UNCHANGED <<hass_data, update_interval, data, last_update_success, debouncer,
                   cycles, cmds, notified, last_cycle, scenario, scan_vars, value_vars, request_vars>>

\* ConfigEntryNotReady left async_setup_entry: the setup is run again later,
\* with a new client and a new coordinator.
SetupRetry ==
    /\ setup_pc = "not_ready"
    /\ setup_pc' = "start"
    /\ last_update_success' = TRUE
    /\ last_cycle' = [result |-> "none", hopper |-> "none"]
    /\ UNCHANGED <<hass_data, update_interval, data, listeners, unsub_refresh, debouncer,
                   cycles, cmds, created, announced, notified, scenario, scan_vars, value_vars, request_vars>>

\* ------------------------------------------------------------- commands
\* What the device answers to a command request: 200 (or 201), 204, an
\* HTTP error status, or no answer (transport error, timeout).
Responses == {"200", "204", "500", "error"}

\* Entities that call a PiFireClient method (GET, raise_for_status); the
\* others POST directly and accept the statuses 200 and 201 only.
ClientCallers == {"switch.pmode", "number.setpoint", "button.prime"}

\* request_succeeds when no status is checked and no error is raised.
request_succeeds_always(k, resp) == TRUE

request_succeeds(k, resp) ==
    IF k \in ClientCallers THEN resp \in {"200", "204"} ELSE resp = "200"

\* The device request failed: no answer, or an error status.
device_failed(resp) == resp \in {"500", "error"}

\* _is_pmode_active when the stored mode is not looked at.
is_pmode_active_always(d) == TRUE

\* PiFirePModeSelector._is_pmode_active on coordinator.data (an exception of
\* line 248 also ends the handler before any request).
is_pmode_active(d) ==
    d # NoData /\ ~adjust_raises(d) /\ current_mode(d) = "hold"

\* The checks a handler makes before it sends its request: the option
\* checks of the two selectors and the hold-mode check of the P-mode selector.
precheck_passes(k, option_valid) ==
    CASE k = "select.mode" -> option_valid
      [] k = "select.pmode" -> option_valid /\ is_pmode_active(data)
      [] OTHER -> TRUE

\* Whether the handler awaits coordinator.async_request_refresh() after its
\* request succeeded.
requests_refresh(k) == k # "number.setpoint"

ActiveCmds == { k \in Callers : cmds[k].pc # "idle" }

\* A service call reaches an entity's command handler; the handler checks
\* its argument and sends its one request.
CmdCall(k, option_valid) ==
    /\ setup_pc = "loaded"
    /\ cmds[k].pc = "idle"
    /\ Cardinality(ActiveCmds) < MaxActiveCmds
    /\ cmds' = [cmds EXCEPT ![k] =
                  IF precheck_passes(k, option_valid)
                  THEN [pc |-> "http", sent |-> 1, refreshed |-> FALSE, failed |-> FALSE]
                  ELSE [pc |-> "ret_err", sent |-> 0, refreshed |-> FALSE, failed |-> FALSE]]
    /\ UNCHANGED <<setup_pc, hass_data, update_interval, data, last_update_success,
                   listeners, unsub_refresh, debouncer, cycles, created, announced,
                   notified, last_cycle, scenario, scan_vars, value_vars, request_vars>>

\* The request failed: the handler logs and raises HomeAssistantError.
CmdRequestFails(k, resp) ==
    /\ cmds[k].pc = "http"
    /\ ~request_succeeds(k, resp)
    /\ cmds' = [cmds EXCEPT ![k].pc = "ret_err", ![k].failed = device_failed(resp)]
    /\ UNCHANGED <<setup_pc, hass_data, update_interval, data, last_update_success,
                   listeners, unsub_refresh, debouncer, cycles, created, announced,
                   notified, last_cycle, scenario, scan_vars, value_vars, request_vars>>

\* The request succeeded and the handler requests no refresh.
CmdDoneNoRefresh(k, resp) ==
    /\ cmds[k].pc = "http"
    /\ request_succeeds(k, resp)
    /\ ~requests_refresh(k)
    /\ cmds' = [cmds EXCEPT ![k].pc = "ret_ok", ![k].failed = device_failed(resp)]
    /\ UNCHANGED <<setup_pc, hass_data, update_interval, data, last_update_success,
                   listeners, unsub_refresh, debouncer, cycles, created, announced,
                   notified, last_cycle, scenario, scan_vars, value_vars, request_vars>>

\* The request succeeded and the handler awaits async_request_refresh():
\* Debouncer.async_call.  During the cooldown the call is noted for the end
\* of the timer; while a debounced refresh runs it is dropped; both return
\* at once.
CmdRefreshCollapsed(k, resp) ==
    /\ cmds[k].pc = "http"
    /\ request_succeeds(k, resp)
    /\ requests_refresh(k)
    /\ debouncer.timer \/ debouncer.locked
    /\ debouncer' = IF debouncer.timer THEN [debouncer EXCEPT !.pending = TRUE] ELSE debouncer
    /\ cmds' = [cmds EXCEPT ![k].pc = "ret_ok", ![k].refreshed = TRUE,
                            ![k].failed = device_failed(resp)]
    /\ UNCHANGED <<setup_pc, hass_data, update_interval, data, last_update_success,
                   listeners, unsub_refresh, cycles, created, announced, notified,
                   last_cycle, scenario, scan_vars, value_vars, request_vars>>

\* Otherwise the debouncer takes its lock and runs async_refresh at once; the
\* handler waits for it.
CmdRefreshRuns(k, resp) ==
    /\ cmds[k].pc = "http"
    /\ request_succeeds(k, resp)
    /\ requests_refresh(k)
    /\ ~debouncer.timer /\ ~debouncer.locked
    /\ begin_refresh("requested", k, [debouncer EXCEPT !.locked = TRUE])
    /\ cmds' = [cmds EXCEPT ![k].pc = "refreshing", ![k].refreshed = TRUE,
                            ![k].failed = device_failed(resp)]
    /\ UNCHANGED <<setup_pc, hass_data, update_interval, data, last_update_success,
                   listeners, created, announced, notified, last_cycle, scenario, scan_vars, value_vars, request_vars>>

\* The handler returns to (ret_ok) or raises into (ret_err) the service call.
CmdReturn(k) ==
    /\ cmds[k].pc \in {"ret_ok", "ret_err"}
    /\ cmds' = [cmds EXCEPT ![k] = CmdIdle]
    /\ UNCHANGED <<setup_pc, hass_data, update_interval, data, last_update_success,
                   listeners, unsub_refresh, debouncer, cycles, created, announced,
                   notified, last_cycle, scenario, scan_vars, value_vars, request_vars>>

\* The debouncer's cooldown ends with no call noted.
CooldownEnds ==
    /\ debouncer.timer
    /\ ~debouncer.pending
    /\ debouncer' = [debouncer EXCEPT !.timer = FALSE]
    /\ UNCHANGED <<setup_pc, hass_data, update_interval, data, last_update_success,
                   listeners, unsub_refresh, cycles, cmds, created, announced, notified,
                   last_cycle, scenario, scan_vars, value_vars, request_vars>>

\* The cooldown ends with a call noted: the refresh runs now, awaited by
\* no handler.
CooldownRefresh ==
    /\ debouncer.timer
    /\ debouncer.pending
    /\ begin_refresh("requested", "none", [debouncer EXCEPT !.locked = TRUE])
    /\ UNCHANGED <<setup_pc, hass_data, update_interval, data, last_update_success,
                   listeners, cmds, created, announced, notified, last_cycle, scenario, scan_vars, value_vars, request_vars>>

Next ==
    \/ FirstRefresh
    \/ TimerFires
    \/ \E c \in Cyc : GetCurrentFails(c)
    \/ \E c \in Cyc, p \in CurrentPayloads : GetCurrentReturns(c, p)
    \/ \E c \in Cyc, h \in SomeHopperResponses : GetHopperReturns(c, h, FALSE)
    \/ RegisterEntry
    \/ ForwardPlatforms
    \/ SetupRetry
    \/ \E k \in Callers, v \in BOOLEAN : CmdCall(k, v)
    \/ \E k \in Callers, r \in Responses : CmdRequestFails(k, r)
    \/ \E k \in Callers, r \in Responses : CmdDoneNoRefresh(k, r)
    \/ \E k \in Callers, r \in Responses : CmdRefreshCollapsed(k, r)
    \/ \E k \in Callers, r \in Responses : CmdRefreshRuns(k, r)
    \/ \E k \in Callers : CmdReturn(k)
    \/ CooldownEnds
    \/ CooldownRefresh

Spec == Init /\ [][Next]_vars

\* The coordinator alone: setup and timer-driven polls, no commands.
PollNext ==
    \/ FirstRefresh
    \/ TimerFires
    \/ \E c \in Cyc : GetCurrentFails(c)
    \/ \E c \in Cyc, p \in PollPayloads : GetCurrentReturns(c, p)
    \/ \E c \in Cyc, h \in HopperResponses : GetHopperReturns(c, h, TRUE)
    \/ RegisterEntry
    \/ ForwardPlatforms
    \/ SetupRetry

PollSpec == Init /\ [][PollNext]_vars

\* The refresh timer is a call_at handle of the event loop: an armed timer
\* that is not cancelled fires.
FairPollSpec == PollSpec /\ WF_vars(TimerFires)

\* ------------------------------------------------------------ discovery
\* Payloads handed to discover_from_payload in ScanSpec: probe_status with no
\* label enabled, with the grill only, with two food probes (one listed in
\* two groups); labels coming and going in F, NT and P; the empty payload;
\* the hopper section missing, without hopper_level, with a numeric and with
\* a non-numeric hopper_level.
ScanPayloads ==
    { Payload("map", ABSENT, en, f, nt, p) :
        en \in {<<>>, <<"Grill">>, <<"Probe2", "Probe1", "Probe1">>},
        f \in {{}, {"Probe1"}, {"Probe1", "Probe2"}},
        nt \in {{}, {"Probe2"}},
        p \in {{}, {"Grill"}, {"grill", "Grill"}} }
    \cup { [Payload(st, ABSENT, <<>>, {}, {}, p) EXCEPT !.hopper = h] :
             st \in {"absent", "map"}, p \in {{}, {"Grill"}},
             h \in {"absent", "nolevel", "level", "badlevel"} }

\* PiFirePelletLevelSensor.native_value is not None: hopper_level is there
\* and int() accepts it.
pellet_level_present(payload) == payload.hopper = "level"

\* A step that is one call of discover_from_payload.
ScanStep == scans' = scans + 1

\* The payload {}: no status, no current, no hopper section.
EmptyPayload == Payload("absent", ABSENT, <<>>, {}, {}, {})

\* sensor.async_setup_entry's first call and every later _on_update call of
\* discover_from_payload, with the payload p in coordinator.data.
Scan(p) ==
    /\ scans < MaxScans
    /\ LET disc == discover_from_payload(p, created, {})
       IN /\ created' = disc.created
          /\ announced' = Announce(announced, disc.added)
          /\ last_added' = disc.added
    /\ data' = p
    /\ scans' = scans + 1
    /\ UNCHANGED <<setup_pc, hass_data, update_interval, last_update_success, listeners,
                   unsub_refresh, debouncer, cycles, cmds, notified, last_cycle, scenario,
                   value_vars, request_vars>>

ScanNext == \E p \in ScanPayloads : Scan(p)

\* One discovery manager and the payloads it is shown.
ScanSpec == Init /\ [][ScanNext]_vars

\* The async_add_entities calls of one scan that may raise.
AddCalls == {"recipe", "runtime", "pellet_level", "probes"}

\* A call of discover_from_payload during which the async_add_entities calls
\* in rs raise.
ScanRaising(p, rs) ==
    /\ scans < MaxScans
    /\ LET disc == discover_from_payload(p, created, rs)
       IN /\ created' = disc.created
          /\ announced' = Announce(announced, disc.added)
          /\ last_added' = disc.added
    /\ data' = p
    /\ scans' = scans + 1
    /\ UNCHANGED <<setup_pc, hass_data, update_interval, last_update_success, listeners,
                   unsub_refresh, debouncer, cycles, cmds, notified, last_cycle, scenario,
                   value_vars, request_vars>>

\* Payloads shown to the manager in FaultyScanSpec: no probe, the grill
\* probe, the grill and a food probe, each with and without a hopper level.
FaultyScanPayloads ==
    { [Payload("map", ABSENT, <<>>, f, {}, p) EXCEPT !.hopper = h] :
        f \in {{}, {"Probe1"}}, p \in {{}, {"Grill"}}, h \in {"absent", "level"} }

FaultyScanNext ==
    \/ \E p \in FaultyScanPayloads : Scan(p)
    \/ \E p \in FaultyScanPayloads, rs \in (SUBSET AddCalls) \ {{}} : ScanRaising(p, rs)

\* One discovery manager whose add-entities callback may raise.
FaultyScanSpec == Init /\ [][FaultyScanNext]_vars

\* ------------------------------------------------------- derived values
\* The raw fields of a payload the entities derive their values from:
\* status and status.mode, current.P.Grill, current.F[label] and
\* current.NT[label] of one auxiliary probe, and current.PSP.
RawPayload(st, m, g, fv, ntv, sp) ==
    [status |-> st, mode |-> m, grill |-> g, f |-> fv, nt |-> ntv, psp |-> sp]

\* The raw values Python's float() converts, and the number it gives.
Floatable == {"n:0", "n:150", "n:225", "s:225"}

FloatNumber(x) ==
    CASE x = "n:0" -> 0
      [] x = "n:150" -> 150
      [] OTHER -> 225

\* str.title() of a mode string.
Title(m) ==
    CASE Lower(m) = "stop" -> "Stop"
      [] Lower(m) = "hold" -> "Hold"
      [] m = "smoke" -> "Smoke"
      [] m = "startup" -> "Startup"
      [] m = "monitor" -> "Monitor"
      [] m = "shutdown" -> "Shutdown"
      [] OTHER -> "Weird"

\* PiFireModeSelector options.
Options == {"Stop", "Startup", "Smoke", "Hold", "Shutdown", "Monitor"}

\* PiFireModeSelector.current_option.
current_option(d) ==
    IF d.status = "null" THEN "<raises>"
    ELSE IF d.status = "absent" \/ d.mode \in {ABSENT, NULL, ""} THEN "Stop"
    ELSE IF Title(d.mode) \in Options THEN Title(d.mode)
    ELSE "Stop"

\* The thermostat's  data.get("status", {}).get("mode", "").lower()  raises on
\* a null status and on a null mode.
climate_mode_raises(d) == d.status = "null" \/ (d.status = "map" /\ d.mode = NULL)

climate_mode(d) ==
    IF d.status = "absent" \/ d.mode = ABSENT THEN "" ELSE Lower(d.mode)

\* PiFireThermostat.hvac_mode.
hvac_mode(d) ==
    IF climate_mode_raises(d) THEN "<raises>"
    ELSE IF climate_mode(d) = "stop" THEN "off"
    ELSE "heat"

\* PiFireThermostat.preset_mode, through PIFIRE_MODE_TO_PRESET.
preset_mode(d) ==
    IF climate_mode_raises(d) THEN "<raises>"
    ELSE IF climate_mode(d) \in {"startup", "smoke", "hold"} THEN climate_mode(d)
    ELSE "none"

\* The probe sensor's  (data.get("status") or {}).get("mode", "").lower()
\* raises on a null mode only.
sensor_mode_raises(d) == d.status = "map" /\ d.mode = NULL

sensor_mode(d) ==
    IF d.status \in {"absent", "null"} \/ d.mode = ABSENT THEN "" ELSE Lower(d.mode)

\* _num of PiFireProbeTempSensor.native_value.
num(x) ==
    IF x \in {"s:unknown", "s:Unknown"} THEN Some(0)
    ELSE IF x \in Floatable THEN Some(FloatNumber(x))
    ELSE None

\* The fallback without the NT lookup.
fallback_unused(val, alt) == val

\* native_value, lines 541-543: val after the NT fallback.
fallback(val, alt) ==
    IF val \in {None, Some(0)}
    THEN (IF alt \notin {None, Some(0)} THEN alt ELSE val)
    ELSE val

\* PiFireProbeTempSensor.native_value for the grill label (is_grill) and for
\* an auxiliary label.
native_value(is_grill, d) ==
    IF sensor_mode_raises(d) THEN Raises
    ELSE IF is_grill /\ sensor_mode(d) = "stop" THEN Some(0)
    ELSE IF is_grill THEN num(d.grill)
    ELSE fallback(num(d.f), num(d.nt))

\* PiFireThermostat.current_temperature.
current_temperature(d) ==
    IF d.grill \in {ABSENT, NULL} THEN None
    ELSE IF d.grill \in Floatable THEN Some(FloatNumber(d.grill))
    ELSE None

\* The setpoint taking P.Grill before PSP.
target_temperature_grill_first(d) ==
    IF d.grill \in Floatable THEN Some(FloatNumber(d.grill))
    ELSE IF d.psp \in Floatable THEN Some(FloatNumber(d.psp))
    ELSE None

\* PiFireThermostat.target_temperature.
target_temperature(d) ==
    IF d.psp \notin {ABSENT, NULL} /\ d.psp \in Floatable THEN Some(FloatNumber(d.psp))
    ELSE IF d.grill \in {ABSENT, NULL} THEN None
    ELSE IF d.grill \in Floatable THEN Some(FloatNumber(d.grill))
    ELSE None

\* PiFireTemperatureSetpoint._get_current_psp.
get_current_psp(d) ==
    IF d.psp \notin {ABSENT, NULL} /\ d.psp \in Floatable THEN Some(FloatNumber(d.psp))
    ELSE IF d.grill \notin {ABSENT, NULL} /\ d.grill \in Floatable
         THEN Some(FloatNumber(d.grill))
    ELSE None

\* What the entities and the coordinator derive from one payload.
Derived(d) ==
    [derived |-> TRUE,
     option |-> current_option(d),
     hvac_mode |-> hvac_mode(d),
     preset |-> preset_mode(d),
     interval |-> [i \in {FAST_UPDATE_INTERVAL, SLOW_UPDATE_INTERVAL}
                      |-> adjust_update_interval(i, d)],
     grill_sensor |-> native_value(TRUE, d),
     probe_sensor |-> native_value(FALSE, d),
     current_temperature |-> current_temperature(d),
     target_temperature |-> target_temperature(d),
     setpoint |-> get_current_psp(d)]

\* The mode strings a payload may carry, besides a missing or null mode.
RawModes ==
    {ABSENT, NULL, "", "stop", "Stop", "STOP", "hold", "Hold", "smoke", "startup",
     "monitor", "shutdown", "weird"}

\* Payloads that vary the mode, the probe readings and the setpoint in turn.
RawPayloads ==
    {RawPayload("map", m, g, ABSENT, ABSENT, ABSENT) :
         m \in RawModes, g \in {ABSENT, "n:150", "s:unknown"}}
    \cup {RawPayload(st, ABSENT, g, ABSENT, ABSENT, ABSENT) :
              st \in {"absent", "null"}, g \in {ABSENT, "n:150", "s:unknown"}}
    \cup {RawPayload("map", "hold", "n:150", fv, ntv, ABSENT) :
              fv \in TempRaws, ntv \in TempRaws}
    \cup {RawPayload("map", "Hold", g, ABSENT, ABSENT, sp) :
              g \in TempRaws, sp \in TempRaws}

\* The coordinator stores payload d and every entity writes its state.
Observe(d) ==
    /\ raw' = d
    /\ view' = Derived(d)
    /\ UNCHANGED <<setup_pc, hass_data, update_interval, data, last_update_success,
                   listeners, unsub_refresh, debouncer, cycles, cmds, created, announced,
                   notified, last_cycle, scenario, scan_vars,
                   request_vars>>

ValueNext == \E d \in RawPayloads : Observe(d)

\* The entities' derived values over one payload after another.
ValueSpec == Init /\ [][ValueNext]_vars

\* --------------------------------------------------------- status fields
\* The relays of the output-pins map.
Relays == {"power", "fan", "auger", "igniter"}

\* Raw values of one output pin: the key missing, null, true, false.
PinRaws == {ABSENT, NULL, "true", "false"}

\* The status section of a payload: whether it has an outpins map, the raw
\* value of each relay in it, and the pmode, settings.last_pmode and p_mode
\* fields.
StatusPayload(op, pn, pm, lpm, pmx) ==
    [status |-> "map", outpins |-> op, pins |-> pn, pmode |-> pm, last_pmode |-> lpm,
     p_mode |-> pmx]

\* outpins.get(pin) when the payload has no outpins map gives None.
pin_state(pin, s) == IF s.outpins = "absent" THEN ABSENT ELSE s.pins[pin]

\* binary_sensor.PiFireOutputPinSensor.is_on: "true", "false" or "absent".
is_on(pin, s) ==
    IF pin_state(pin, s) \in {ABSENT, NULL} THEN "absent" ELSE pin_state(pin, s)

\* binary_sensor.PiFireOutputPinSensor.state.
state(pin, s) ==
    IF is_on(pin, s) = "absent" THEN "absent"
    ELSE IF is_on(pin, s) = "true" THEN "On"
    ELSE "Off"

\* sensor.PiFireOutputPinSensor.native_value.
pin_native_value(pin, s) ==
    IF pin_state(pin, s) \in {ABSENT, NULL} THEN "absent" ELSE pin_state(pin, s)

\* The outpins dict is truthy: it exists and has at least one key.
outpins_truthy(s) == s.outpins = "map" /\ \E r \in Relays : s.pins[r] # ABSENT

\* PiFireThermostat.extra_state_attributes: the attribute named after the
\* relay; there is none for power.
pin_attribute(pin, s) ==
    IF ~outpins_truthy(s) \/ pin = "power" THEN "absent"
    ELSE IF s.pins[pin] = ABSENT THEN "false"
    ELSE IF s.pins[pin] = NULL THEN "absent"
    ELSE s.pins[pin]

\* Raw values of a P-mode field: the key missing, null, the numbers 0, 5, 9,
\* 10 and -1, the strings "5" and "abc".
PModeRaws == {ABSENT, NULL, "n:0", "n:5", "n:9", "n:10", "n:-1", "s:5", "s:abc"}

\* The raw values Python's int() converts, and the number it gives.
IntParses == {"n:0", "n:5", "n:9", "n:10", "n:-1", "s:5"}

IntNumber(x) ==
    CASE x = "n:0" -> 0
      [] x = "n:9" -> 9
      [] x = "n:10" -> 10
      [] x = "n:-1" -> -1
      [] OTHER -> 5

\* settings.get("last_pmode", 1): a missing key reads as the number 1.
last_pmode_level(s) ==
    IF s.last_pmode = ABSENT THEN 1
    ELSE IF s.last_pmode \in IntParses /\ IntNumber(s.last_pmode) \in 0..9
         THEN IntNumber(s.last_pmode)
    ELSE 1

\* The level without the range test on the payload's pmode.
pmode_level_unchecked(s) ==
    IF s.pmode \in IntParses THEN IntNumber(s.pmode) ELSE last_pmode_level(s)

\* PiFirePModeSelector.current_option: the n of the option "Pn".
pmode_level(s) ==
    IF s.pmode \notin {ABSENT, NULL} /\ s.pmode \in IntParses
       /\ IntNumber(s.pmode) \in 0..9
    THEN IntNumber(s.pmode)
    ELSE last_pmode_level(s)

\* PiFirePModeSwitch.is_on: status.get("p_mode", 0) through int(): "true",
\* "false" or "absent".
pmode_is_on(s) ==
    IF s.p_mode = ABSENT THEN "false"
    ELSE IF s.p_mode \notin IntParses THEN "absent"
    ELSE IF IntNumber(s.p_mode) # 0 THEN "true"
    ELSE "false"

\* What the relay entities, the thermostat, the P-mode selector and the
\* P-mode switch derive from one status section.
DerivedStatus(s) ==
    [derived |-> TRUE,
     pmode_level |-> pmode_level(s),
     pmode_is_on |-> pmode_is_on(s),
     is_on |-> [r \in Relays |-> is_on(r, s)],
     state |-> [r \in Relays |-> state(r, s)],
     native_value |-> [r \in Relays |-> pin_native_value(r, s)],
     attribute |-> [r \in Relays |-> pin_attribute(r, s)]]

\* Status sections that vary the output pins.
RelayStatuses ==
    {StatusPayload("map", pn, ABSENT, ABSENT, ABSENT) :
         pn \in [Relays -> {ABSENT, "true", "false"}]}
    \cup {StatusPayload("map", [r \in Relays |-> v], ABSENT, ABSENT, ABSENT) : v \in PinRaws}
    \cup {StatusPayload("absent", [r \in Relays |-> ABSENT], ABSENT, ABSENT, ABSENT)}

\* Status sections that vary the P-mode fields.
PModeStatuses ==
    {StatusPayload("absent", [r \in Relays |-> ABSENT], pm, lpm, pmx) :
         pm \in PModeRaws, lpm \in PModeRaws, pmx \in {ABSENT, NULL, "n:0", "n:5", "s:abc"}}

StatusPayloads == RelayStatuses \cup PModeStatuses

\* The coordinator stores a payload with status section s and every entity
\* writes its state.
ObserveStatus(s) ==
    /\ raw' = s
    /\ view' = DerivedStatus(s)
    /\ UNCHANGED <<setup_pc, hass_data, update_interval, data, last_update_success,
                   listeners, unsub_refresh, debouncer, cycles, cmds, created, announced,
                   notified, last_cycle, scenario, scan_vars,
                   request_vars>>

StatusNext == \E s \in StatusPayloads : ObserveStatus(s)

\* The entities' values derived from the status section of one payload after
\* another.
StatusSpec == Init /\ [][StatusNext]_vars

\* --------------------------------------------------------------- requests
\* The config entry's data: the host string, written as a name and the port
\* it may carry ("pifire.local", "pifire.local:8080"), and the optional
\* port key.
EntryData(n, hp, p) == [name |-> n, host_port |-> hp, port |-> p]

EntryDatas ==
    {EntryData("pifire.local", hp, p) : hp \in {ABSENT, "8080"}, p \in {ABSENT, "80", "8080"}}

\* entry.data["host"] as a string.
HostString(e) == IF e.host_port = ABSENT THEN e.name ELSE e.name \o ":" \o e.host_port

\* PiFireClient._base = "http://{host}": the host and port it addresses.
ClientBase(e) == <<e.name, IF e.host_port = ABSENT THEN "80" ELSE e.host_port>>

\* The entities' base_url = "http://{host}:{port}" with port defaulting to
\* 80: the whole host string is taken as the host.
EntityBase(e) == <<HostString(e), IF e.port = ABSENT THEN "80" ELSE e.port>>

\* One HTTP request: its method, the host and port addressed, its path.
Request(method, base, path) == [method |-> method, base |-> base, path |-> path]

\* Handler k, called with arg, sent one request and the device answered
\* resp: the handler returns or raises, and requests a refresh after a
\* success if it does so.
Sent(k, arg, method, base, path, resp) ==
    [caller |-> k, arg |-> arg, sent |-> TRUE,
     requests |-> <<Request(method, base, path)>>,
     outcome |-> IF request_succeeds(k, resp) THEN "ok" ELSE "error",
     refresh |-> request_succeeds(k, resp) /\ requests_refresh(k)]

\* Handler k raised before sending anything.
Rejected(k, arg) ==
    [caller |-> k, arg |-> arg, sent |-> FALSE, requests |-> <<>>, outcome |-> "error",
     refresh |-> FALSE]

\* The state of number.pifire_prime_pellets_grams in the state machine: no
\* such state, or the entity's value (default 100).
GramsStates == {"<none>", "unknown", "unavailable", "0", "1", "100"}

\* The values number.set_value hands to PiFirePrimePelletsGrams: the entity
\* sets no native_min_value, so 0 is in range.
GramsValues == {"0", "1", "100"}

\* int(float(state)) of async_press, with the fallback 100.
grams_of(st) ==
    CASE st = "0" -> 0
      [] st = "1" -> 1
      [] OTHER -> 100

\* The state of select.pifire_mode read by async_press.
DisplayModes == {"<none>", "unknown", "Stop", "Hold", "Shutdown"}

\* DISPLAY_TO_API.get(display_mode, "stop").
next_mode_of(display) ==
    CASE display = "Hold" -> "hold"
      [] OTHER -> "stop"

\* PiFireClient.prime_pellets: the path requested.
prime_pellets_path(grams, next_mode) ==
    "/api/set/mode/prime/" \o ToString(grams) \o "/" \o next_mode

\* The config entry is created and set up.
CreateEntry(e) ==
    /\ entry_data = NoEntry
    /\ entry_data' = e
    /\ UNCHANGED <<setup_pc, hass_data, update_interval, data, last_update_success,
                   listeners, unsub_refresh, debouncer, cycles, cmds, created, announced,
                   notified, last_cycle, scenario, scan_vars, value_vars, grams_state, wire,
                   setpoint_entity>>

\* PiFirePrimePelletsGrams is added, or async_set_native_value stores v.
SetGrams(v) ==
    /\ entry_data # NoEntry
    /\ grams_state' = v
    /\ UNCHANGED <<setup_pc, hass_data, update_interval, data, last_update_success,
                   listeners, unsub_refresh, debouncer, cycles, cmds, created, announced,
                   notified, last_cycle, scenario, scan_vars, value_vars, entry_data, wire,
                   setpoint_entity>>

\* PiFirePrimePelletsButton.async_press.
PressPrime(display, resp) ==
    /\ entry_data # NoEntry
    /\ wire' = Sent("button.prime", grams_state, "GET", ClientBase(entry_data),
                    prime_pellets_path(grams_of(grams_state), next_mode_of(display)), resp)
    /\ UNCHANGED <<setup_pc, hass_data, update_interval, data, last_update_success,
                   listeners, unsub_refresh, debouncer, cycles, cmds, created, announced,
                   notified, last_cycle, scenario, scan_vars, value_vars, entry_data,
                   grams_state,
                   setpoint_entity>>

\* What /api/current answers in RequestSpec: the modes stop, Hold and hold, a
\* null mode, no status section.
RequestPayloads ==
    { Payload("map", m, <<>>, {}, {}, {"Grill"}) : m \in {"stop", "Hold", "hold", NULL} }
    \cup { Payload("absent", ABSENT, <<>>, {}, {}, {}) }

\* A poll cycle: _async_update_data fetches /api/current and /api/hopper
\* through the client and the payload p is stored.
Poll(p) ==
    /\ entry_data # NoEntry
    /\ wire' = [caller |-> "coordinator", arg |-> "", sent |-> TRUE,
                requests |-> <<Request("GET", ClientBase(entry_data), "/api/current"),
                               Request("GET", ClientBase(entry_data), "/api/hopper")>>,
                outcome |-> "ok", refresh |-> FALSE]
    /\ data' = p
    /\ UNCHANGED <<setup_pc, hass_data, update_interval, last_update_success, listeners,
                   unsub_refresh, debouncer, cycles, cmds, created, announced, notified,
                   last_cycle, scenario, scan_vars, value_vars, entry_data, grams_state,
                   setpoint_entity>>

\* PiFirePModeSelector options.
PModeOptions == {"P0", "P1", "P2", "P3", "P4", "P5", "P6", "P7", "P8", "P9"}

\* int(option[1]) as it is put in the URL.
pmode_digit(option) ==
    ToString(CHOOSE n \in 0..9 : option = "P" \o ToString(n))

\* PiFirePModeSelector.async_select_option.
SelectPMode(option, resp) ==
    /\ entry_data # NoEntry
    /\ wire' = IF option \notin PModeOptions \/ ~is_pmode_active(data)
               THEN Rejected("select.pmode", option)
               ELSE Sent("select.pmode", option, "POST", EntityBase(entry_data),
                         "/api/set/pmode/" \o pmode_digit(option), resp)
    /\ UNCHANGED <<setup_pc, hass_data, update_interval, data, last_update_success,
                   listeners, unsub_refresh, debouncer, cycles, cmds, created, announced,
                   notified, last_cycle, scenario, scan_vars, value_vars, entry_data,
                   grams_state,
                   setpoint_entity>>

\* option.lower() of a mode option.
option_lower(option) ==
    CASE option = "Stop" -> "stop"
      [] option = "Startup" -> "startup"
      [] option = "Smoke" -> "smoke"
      [] option = "Hold" -> "hold"
      [] option = "Shutdown" -> "shutdown"
      [] OTHER -> "monitor"

\* The hold temperatures the mode selector may put in its URL: int(P.Grill)
\* when that is a number in 100..500, else 225.
HoldTemps == {"150", "225"}

\* PiFireModeSelector.async_select_option; t is the grill temperature read
\* for the option Hold.
SelectMode(option, t, resp) ==
    /\ entry_data # NoEntry
    /\ (data = NoData \/ data.P = {}) => t = "225"
    /\ option # "Hold" => t = "225"
    /\ wire' = IF option \notin Options
               THEN Rejected("select.mode", option)
               ELSE Sent("select.mode", option, "POST", EntityBase(entry_data),
                         IF option = "Hold" THEN "/api/set/mode/hold/" \o t
                         ELSE "/api/set/mode/" \o option_lower(option), resp)
    /\ UNCHANGED <<setup_pc, hass_data, update_interval, data, last_update_success,
                   listeners, unsub_refresh, debouncer, cycles, cmds, created, announced,
                   notified, last_cycle, scenario, scan_vars, value_vars, entry_data,
                   grams_state, setpoint_entity>>

\* str(enabled).lower()
bool_lower(enabled) == IF enabled THEN "true" ELSE "false"

\* PiFireSmokePlusSwitch.async_turn_on and async_turn_off.
SmokePlus(enabled, resp) ==
    /\ entry_data # NoEntry
    /\ wire' = Sent("switch.smoke_plus", bool_lower(enabled), "POST", EntityBase(entry_data),
                    "/api/set/splus/" \o bool_lower(enabled), resp)
    /\ UNCHANGED <<setup_pc, hass_data, update_interval, data, last_update_success,
                   listeners, unsub_refresh, debouncer, cycles, cmds, created, announced,
                   notified, last_cycle, scenario, scan_vars, value_vars, entry_data,
                   grams_state, setpoint_entity>>

\* PiFirePModeSwitch.async_turn_on (level 1) and async_turn_off (level 0),
\* through PiFireClient.set_p_mode.
PModeSwitch(level, resp) ==
    /\ entry_data # NoEntry
    /\ wire' = Sent("switch.pmode", level, "GET", ClientBase(entry_data),
                    "/api/set/pmode/" \o level, resp)
    /\ UNCHANGED <<setup_pc, hass_data, update_interval, data, last_update_success,
                   listeners, unsub_refresh, debouncer, cycles, cmds, created, announced,
                   notified, last_cycle, scenario, scan_vars, value_vars, entry_data,
                   grams_state, setpoint_entity>>

\* The endpoints of the restart, reboot and shutdown buttons.
SystemEndpoints == {"/api/cmd/restart", "/api/cmd/reboot", "/api/cmd/shutdown"}

\* PiFireSystemButton.async_press: no refresh is requested.
PressSystem(endpoint, resp) ==
    /\ entry_data # NoEntry
    /\ wire' = [Sent("button.system", endpoint, "POST", EntityBase(entry_data), endpoint,
                     resp) EXCEPT !.refresh = FALSE]
    /\ UNCHANGED <<setup_pc, hass_data, update_interval, data, last_update_success,
                   listeners, unsub_refresh, debouncer, cycles, cmds, created, announced,
                   notified, last_cycle, scenario, scan_vars, value_vars, entry_data,
                   grams_state, setpoint_entity>>

\* The values number.set_value hands to the setpoint entity (within its
\* minimum and maximum).
SetValues == {200, 225}

\* _handle_coordinator_update without the externally-changed branch.
handle_coordinator_update_once(last, current_psp) ==
    IF last = None /\ current_psp # None THEN current_psp ELSE last

\* _handle_coordinator_update, lines 161-174: _last_set_value after the call.
handle_coordinator_update(last, current_psp) ==
    IF last = None /\ current_psp # None THEN current_psp
    ELSE IF current_psp # None /\ last # current_psp THEN current_psp
    ELSE last

\* Payloads that vary PSP and P.Grill.
SetpointPayloads ==
    {RawPayload("map", "Hold", g, ABSENT, ABSENT, sp) :
         g \in {ABSENT, "n:150", "s:225", "s:unknown"},
         sp \in {ABSENT, NULL, "n:0", "n:150", "n:225", "s:abc"}}

\* async_added_to_hass: the entity subscribes and, when the coordinator has
\* data, _initialize_from_coordinator takes the payload's setpoint.
AddedToHass ==
    /\ entry_data # NoEntry
    /\ ~setpoint_entity.added
    /\ setpoint_entity' =
           [added |-> TRUE,
            last_set_value |-> IF raw # NoRaw /\ get_current_psp(raw) # None
                               THEN get_current_psp(raw) ELSE None,
            pc |-> "idle", value |-> 0]
    /\ UNCHANGED <<setup_pc, hass_data, update_interval, data, last_update_success,
                   listeners, unsub_refresh, debouncer, cycles, cmds, created, announced,
                   notified, last_cycle, scenario, scan_vars, value_vars, entry_data,
                   grams_state, wire>>

\* The coordinator stores payload d and calls its listeners; the entity's
\* _handle_coordinator_update runs once it has subscribed.
HandleUpdate(d) ==
    /\ entry_data # NoEntry
    /\ raw' = d
    /\ setpoint_entity' =
           IF setpoint_entity.added
           THEN [setpoint_entity EXCEPT !.last_set_value =
                    handle_coordinator_update(@, get_current_psp(d))]
           ELSE setpoint_entity
    /\ UNCHANGED <<setup_pc, hass_data, update_interval, data, last_update_success,
                   listeners, unsub_refresh, debouncer, cycles, cmds, created, announced,
                   notified, last_cycle, scenario, scan_vars, view, entry_data,
                   grams_state, wire>>

\* async_set_native_value up to its await: the value is stored and the state
\* written, then the hold request goes out.
SetValueStore(v) ==
    /\ setpoint_entity.added
    /\ setpoint_entity.pc = "idle"
    /\ setpoint_entity' = [setpoint_entity EXCEPT !.last_set_value = Some(v),
                                                  !.pc = "sending", !.value = v]
    /\ UNCHANGED <<setup_pc, hass_data, update_interval, data, last_update_success,
                   listeners, unsub_refresh, debouncer, cycles, cmds, created, announced,
                   notified, last_cycle, scenario, scan_vars, value_vars, entry_data,
                   grams_state, wire>>

\* PiFireClient.set_hold_mode: the path requested.
set_hold_mode_path(temperature) == "/api/set/mode/hold/" \o ToString(temperature)

\* The device answers the hold request: async_set_native_value returns or
\* raises HomeAssistantError.
SetValueAnswer(resp) ==
    /\ setpoint_entity.pc = "sending"
    /\ wire' = Sent("number.setpoint", ToString(setpoint_entity.value), "GET",
                    ClientBase(entry_data), set_hold_mode_path(setpoint_entity.value), resp)
    /\ setpoint_entity' = [setpoint_entity EXCEPT !.pc = "idle"]
    /\ UNCHANGED <<setup_pc, hass_data, update_interval, data, last_update_success,
                   listeners, unsub_refresh, debouncer, cycles, cmds, created, announced,
                   notified, last_cycle, scenario, scan_vars, value_vars, entry_data,
                   grams_state>>

SetpointNext ==
    \/ \E e \in EntryDatas : CreateEntry(e)
    \/ AddedToHass
    \/ \E d \in SetpointPayloads : HandleUpdate(d)
    \/ \E v \in SetValues : SetValueStore(v)
    \/ \E r \in Responses : SetValueAnswer(r)

\* The setpoint number entity, the coordinator's updates and the hold
\* command.
SetpointSpec == Init /\ [][SetpointNext]_vars

RequestNext ==
    \/ \E e \in EntryDatas : CreateEntry(e)
    \/ \E p \in RequestPayloads : Poll(p)
    \/ \E v \in GramsValues : SetGrams(v)
    \/ \E m \in DisplayModes, r \in Responses : PressPrime(m, r)
    \/ \E o \in PModeOptions \cup {"P10", "Stop"}, r \in Responses : SelectPMode(o, r)
    \/ \E o \in Options \cup {"Prime"}, t \in HoldTemps, r \in Responses : SelectMode(o, t, r)
    \/ \E b \in BOOLEAN, r \in Responses : SmokePlus(b, r)
    \/ \E l \in {"0", "1"}, r \in Responses : PModeSwitch(l, r)
    \/ \E e \in SystemEndpoints, r \in Responses : PressSystem(e, r)
    \/ AddedToHass
    \/ \E v \in SetValues : SetValueStore(v)
    \/ \E r \in Responses : SetValueAnswer(r)

\* One configured device and the requests its entities and its client send.
RequestSpec == Init /\ [][RequestNext]_vars

\* ----------------------------------------------------------- properties
\* A step in which poll cycle c ends.
CycleEnds(c) == c \in InFlight /\ cycles' = WithoutCycle(c)

\* A step in which poll cycle c ends because get_current raised.
CycleFails(c) == CycleEnds(c) /\ cycles[c].stage = "get_current"

\* A step in which poll cycle c ends successfully.
CycleSucceeds(c) == CycleEnds(c) /\ cycles[c].stage = "get_hopper"

\* C1 as the spec states it: after every successful poll cycle the update
\* interval is Fast when the lower-cased status.mode of the payload just
\* stored is a fast mode and Slow for every other payload.  The code departs
\* from it: a payload whose status or status.mode is null leaves the interval
\* as it was.
C1_IntervalFollowsMode ==
    last_cycle.result = "ok" => update_interval = required_interval(data)

\* C2: successful polls with the modes stop, hold, hold, stop leave the
\* intervals slow, fast, fast, slow; the wait armed after a poll has the
\* interval that poll computed, and an armed wait keeps its delay until it
\* fires.
C2_Prefixes == { SubSeq(<<SLOW_UPDATE_INTERVAL, FAST_UPDATE_INTERVAL,
                          FAST_UPDATE_INTERVAL, SLOW_UPDATE_INTERVAL>>, 1, n) : n \in 0..4 }

C2_IntervalSequence ==
    /\ [](scenario \in C2_Prefixes \cup {OffScenario})
    /\ [](unsub_refresh # NoTimer => unsub_refresh = update_interval)
    /\ [][unsub_refresh # NoTimer /\ unsub_refresh' # NoTimer
            => unsub_refresh' = unsub_refresh]_vars

C2_Witness ==
    /\ scenario = <<SLOW_UPDATE_INTERVAL, FAST_UPDATE_INTERVAL,
                    FAST_UPDATE_INTERVAL, SLOW_UPDATE_INTERVAL>>
    /\ unsub_refresh = SLOW_UPDATE_INTERVAL

\* C3, amended: when get_current fails in a poll cycle that is not the first,
\* the cycle ends with coordinator.data as it was before, the coordinator
\* marked failed, and every listener called if the coordinator was not
\* already failed when the cycle began; if it was, no listener is called.
C3_FailureKeepsData ==
    [][\A c \in Cyc :
         (CycleFails(c) /\ cycles[c].origin # "first")
         => /\ data' = data
            /\ ~last_update_success'
            /\ notified' = IF cycles[c].prev_ok THEN listeners ELSE <<>>]_vars

C3_Witness ==
    /\ setup_pc = "loaded"
    /\ last_cycle.result = "failed"
    /\ ~last_update_success
    /\ data # NoData
    /\ notified = PlatformListeners

\* C3 as the spec states it: every such failure calls every listener.
C3_EveryFailureNotifies ==
    [][\A c \in Cyc :
         (CycleFails(c) /\ cycles[c].origin # "first")
         => /\ data' = data
            /\ ~last_update_success'
            /\ notified' = listeners]_vars

\* C4: once setup has completed, a failed poll cycle is followed by the start
\* of another poll cycle; and a poll cycle that succeeds marks the
\* coordinator successful again and stores the payload it fetched.
C4_ScheduleSurvivesFailure ==
    /\ (setup_pc = "loaded" /\ last_cycle.result = "failed" /\ InFlight = {})
          ~> (InFlight # {})
    /\ [][\A c \in Cyc :
            CycleSucceeds(c)
            => /\ last_update_success'
               /\ [data' EXCEPT !.hopper = "absent"] = cycles[c].current_data]_vars

C4_Witness ==
    /\ setup_pc = "loaded"
    /\ last_cycle.result = "failed"
    /\ ~last_update_success
    /\ InFlight # {}

\* C5: a poll cycle whose get_current succeeded succeeds whatever
\* /api/hopper answers; after an error or an empty answer coordinator.data has
\* no hopper section, after a non-empty answer it carries that answer.
C5_HopperNeverFailsCycle ==
    /\ \A c \in InFlight : cycles[c].stage = "get_hopper" => cycles[c].current_data # NoData
    /\ last_cycle.hopper # "none"
         => /\ last_cycle.result = "ok"
            /\ last_update_success
            /\ last_cycle.hopper \in {"error", "empty"} => data.hopper = "absent"
            /\ last_cycle.hopper \in {"nolevel", "level"} => data.hopper = last_cycle.hopper

C5_Witness ==
    /\ last_cycle.hopper = "error"
    /\ last_cycle.result = "ok"
    /\ data # NoData
    /\ data.hopper = "absent"
    /\ last_update_success

\* C6: the entry is stored in hass.data and the platforms are set up only
\* after the first refresh succeeded; when it fails, setup ends with
\* ConfigEntryNotReady, nothing is stored, no listener is subscribed, and no
\* further poll is in flight or scheduled.
C6_FirstRefreshGatesSetup ==
    /\ hass_data => (data # NoData /\ setup_pc \in {"registered", "loaded"})
    /\ listeners # <<>> => (hass_data /\ setup_pc = "loaded")
    /\ setup_pc = "first_refresh" => Cardinality(InFlight) = 1
    /\ setup_pc \in {"start", "refreshed", "registered", "not_ready"}
         => (InFlight = {} /\ unsub_refresh = NoTimer /\ ~debouncer.timer)
    /\ setup_pc = "not_ready"
         => (last_cycle.result = "failed" /\ ~hass_data /\ listeners = <<>> /\ created = {})
    /\ setup_pc = "refreshed" => last_cycle.result = "ok"

C6_Witness ==
    /\ setup_pc = "not_ready"
    /\ last_cycle.result = "failed"
    /\ ~hass_data

\* C7 as the spec states it: at most one poll cycle is in flight at any
\* time.  The code departs from it: a requested refresh starts while a
\* scheduled one is in flight.
C7_OneCycleInFlight == Cardinality(InFlight) <= 1

\* C8 as the spec states it: a command handler that returns successfully has
\* requested a refresh.  The code departs from it: the temperature setpoint
\* returns without one.
C8_SuccessRequestsRefresh ==
    \A k \in Callers : cmds[k].pc = "ret_ok" => cmds[k].refreshed

\* C9: a command whose device request failed ends by raising; it sent one
\* request and requested no refresh.
C9_FailureRaises ==
    \A k \in Callers :
        (cmds[k].failed /\ cmds[k].pc # "http")
        => (cmds[k].pc = "ret_err" /\ cmds[k].sent = 1 /\ ~cmds[k].refreshed)

C9_Witness ==
    \E k \in Callers : cmds[k].pc = "ret_err" /\ cmds[k].failed /\ cmds[k].sent = 1

\* C10: every discovery key is announced at most once, _created never loses
\* a member, and a scan of the payload scanned before announces nothing.
C10_DiscoveryMonotonic ==
    /\ [](\A k \in DiscoveryKeys : announced[k] <= 1 /\ (announced[k] = 1 => k \in created))
    /\ [][created \subseteq created']_vars
    /\ [][\A c \in Cyc :
            (CycleEnds(c) /\ setup_pc = "loaded" /\ notified' # <<>> /\ data' = data)
            => (announced' = announced /\ created' = created)]_vars

C10_Witness ==
    /\ announced["probe:Probe1"] = 1
    /\ announced["pellet_level"] = 1
    /\ data # NoData
    /\ data.F = {}
    /\ data.hopper = "absent"
    /\ last_cycle.result = "failed"
    /\ notified = PlatformListeners

\* C11: the keys recipe and runtime are announced by the first scan, whatever
\* the payload holds, and by no later scan.
C11_RecipeRuntimeFirstScan ==
    /\ scans = 0 => created = {}
    /\ scans >= 1
         => /\ {"recipe", "runtime"} \subseteq created
            /\ announced["recipe"] = 1
            /\ announced["runtime"] = 1
    /\ "recipe" \in SeqRange(last_added) <=> scans = 1
    /\ "runtime" \in SeqRange(last_added) <=> scans = 1

C11_Witness ==
    /\ scans = 1
    /\ data = EmptyPayload
    /\ last_added = <<"recipe", "runtime">>

\* C12, amended: pellet_level is announced by exactly the first scan whose
\* payload has the key hopper_level in its hopper section, whatever the value
\* under that key; a payload without hopper section or without that key never
\* announces it.
C12_PelletLevelOnKey ==
    /\ [](announced["pellet_level"] <= 1)
    /\ [][ScanStep
            => ("pellet_level" \in SeqRange(last_added')
                  <=> (data'.hopper \in {"level", "badlevel"}
                         /\ "pellet_level" \notin created))]_vars

C12_Witness ==
    /\ scans = 2
    /\ data.hopper = "level"
    /\ last_added = <<"pellet_level">>
    /\ announced["pellet_level"] = 1

\* C12 as the spec states it: pellet_level is announced by exactly the first
\* scan whose payload yields a pellet level.
C12_PelletLevelOnValue ==
    [][ScanStep
         => ("pellet_level" \in SeqRange(last_added')
               <=> (pellet_level_present(data') /\ "pellet_level" \notin created))]_vars

\* Labels that are a key of F, NT or P in the payload.
C13_HasValue(payload) == payload.F \cup payload.NT \cup payload.P

\* C13, amended: probe:L is announced by exactly the first scan in which L is
\* a key of F, NT or P and is a candidate label: one probe_status marks
\* enabled or, when probe_status marks none, any label.
C13_ProbeOnEnabledValue ==
    [][ScanStep
         => \A l \in Labels :
              ProbeKey(l) \in SeqRange(last_added')
                <=> /\ l \in C13_HasValue(data')
                    /\ data'.enabled # <<>> => l \in SeqRange(data'.enabled)
                    /\ ProbeKey(l) \notin created]_vars

C13_Witness ==
    /\ scans = 1
    /\ data.enabled = <<"Grill">>
    /\ "Probe1" \in data.F
    /\ "Grill" \in data.P
    /\ last_added = <<"recipe", "runtime", "probe:Grill">>
    /\ "probe:Probe1" \notin created

\* C13 as the spec states it: probe:L is announced by the first scan in which
\* L has a value in F, NT or P, whatever probe_status lists.
C13_ProbeOnValue ==
    [][ScanStep
         => \A l \in Labels :
              ProbeKey(l) \in SeqRange(last_added')
                <=> (l \in C13_HasValue(data') /\ ProbeKey(l) \notin created)]_vars

\* The payload new is the payload old with the one label l added to F, NT
\* or P, l being in none of them in old.
C14_AddsLabel(old, new, l) ==
    /\ l \notin C13_HasValue(old)
    /\ new \in {[old EXCEPT !.F = @ \cup {l}], [old EXCEPT !.NT = @ \cup {l}],
                [old EXCEPT !.P = @ \cup {l}]}

\* C14, amended: a scan of the payload scanned before with one more label,
\* never announced, announces probe:<label> and nothing else when the label
\* is a candidate (probe_status marks it enabled, or marks none), and
\* announces nothing when it is not.
C14_OneNewLabelOneKey ==
    [][\A l \in Labels :
         (ScanStep /\ scans >= 1 /\ C14_AddsLabel(data, data', l) /\ ProbeKey(l) \notin created)
         => last_added' = IF data'.enabled = <<>> \/ l \in SeqRange(data'.enabled)
                          THEN <<ProbeKey(l)>> ELSE <<>>]_vars

C14_Witness ==
    /\ scans = 2
    /\ data.F = {"Probe1", "Probe2"}
    /\ "probe:Probe1" \in created
    /\ last_added = <<"probe:Probe2">>

\* C14 as the spec states it: such a scan always announces exactly
\* probe:<label>.
C14_OneNewLabelAlwaysOneKey ==
    [][\A l \in Labels :
         (ScanStep /\ scans >= 1 /\ C14_AddsLabel(data, data', l) /\ ProbeKey(l) \notin created)
         => last_added' = <<ProbeKey(l)>>]_vars

\* C15: among the probe keys one scan announces, no grill label (grill in
\* any letter case) comes after another label, and the other labels come in
\* ascending string order.
C15_GrillFirstThenSorted ==
    \A i, j \in DOMAIN last_added : \A a, b \in Labels :
        (i < j /\ last_added[i] = ProbeKey(a) /\ last_added[j] = ProbeKey(b))
        => /\ LabelLower(b) = "grill" => LabelLower(a) = "grill"
           /\ (LabelLower(a) # "grill" /\ LabelLower(b) # "grill") => LabelRank(a) < LabelRank(b)

C15_Witness ==
    last_added = <<"recipe", "runtime", "probe:Grill", "probe:grill", "probe:Probe1",
                   "probe:Probe2">>

\* C16: for every payload missing the mode field (no status section, or a
\* status section without the mode key) every consumer derives "stop": the
\* mode selector reports Stop, the thermostat reports HVAC off with preset
\* none, and the coordinator selects the Slow interval from either interval.
C16_MissingModeIsStop ==
    (view.derived /\ (raw.status = "absent" \/ (raw.status = "map" /\ raw.mode = ABSENT)))
        => /\ view.option = "Stop"
           /\ view.hvac_mode = "off"
           /\ view.preset = "none"
           /\ \A i \in DOMAIN view.interval : view.interval[i] = SLOW_UPDATE_INTERVAL

\* C17: when the payload's mode is "stop" in any letter case, the grill
\* temperature is 0.0 whatever the raw P.Grill value is, both on the probe
\* sensor of the grill label and on the thermostat's current temperature.
C17_StopGrillIsZero ==
    (view.derived /\ raw.status = "map" /\ raw.mode \in {"stop", "Stop", "STOP"})
        => /\ view.grill_sensor = Some(0)
           /\ view.current_temperature = Some(0)

\* The probe sensor of the grill label alone reports 0.0 in stop mode.
C17_SensorPathZero ==
    (view.derived /\ raw.status = "map" /\ raw.mode \in {"stop", "Stop", "STOP"})
        => view.grill_sensor = Some(0)

\* C18: probe fallback law for an auxiliary (non-grill) label, in any mode
\* the sensor can read: if the F value is 0 or absent and the NT value is a
\* non-zero number, the sensor reports the NT value; if F is 0 and NT is 0 or
\* absent, it reports 0, not absent; if F is a non-zero number, it reports F
\* whatever NT holds.
C18_ProbeFallbackLaw ==
    view.derived
        => /\ (raw.f \in {ABSENT, "n:0"} /\ raw.nt \in {"n:150", "n:225"})
                => view.probe_sensor = Some(FloatNumber(raw.nt))
           /\ (raw.f = "n:0" /\ raw.nt \in {ABSENT, "n:0"})
                => view.probe_sensor = Some(0)
           /\ raw.f \in {"n:150", "n:225"}
                => view.probe_sensor = Some(FloatNumber(raw.f))

\* F is 0 and NT holds a different non-zero reading: the fallback acted.
C18_Witness ==
    /\ view.derived
    /\ raw.f = "n:0"
    /\ raw.nt = "n:225"
    /\ view.probe_sensor = Some(225)

\* C19: in a payload with a running mode, a temperature field holding the
\* string "unknown" in any letter case is reported as 0.0, any other
\* non-numeric or unparseable raw value (null, "abc", a list) as absent, and
\* no raw value of a temperature field makes a derivation raise; this for the
\* grill reading on the probe sensor and on the thermostat, and for the F
\* reading of an auxiliary probe without an NT reading.
C19_UnknownIsZero ==
    (view.derived /\ raw.status = "map" /\ raw.mode \in {"hold", "Hold", "smoke"})
        => /\ raw.grill \in {"s:unknown", "s:Unknown"}
                => /\ view.grill_sensor = Some(0)
                   /\ view.current_temperature = Some(0)
           /\ raw.grill \in {NULL, "s:abc", "list"}
                => /\ view.grill_sensor = None
                   /\ view.current_temperature = None
           /\ (raw.f \in {"s:unknown", "s:Unknown"} /\ raw.nt = ABSENT)
                => view.probe_sensor = Some(0)
           /\ (raw.f \in {NULL, "s:abc", "list"} /\ raw.nt = ABSENT)
                => view.probe_sensor = None
           /\ Raises \notin {view.grill_sensor, view.probe_sensor, view.current_temperature,
                              view.target_temperature, view.setpoint}

\* The same on the probe sensor alone.
C19_SensorUnknownIsZero ==
    (view.derived /\ raw.status = "map" /\ raw.mode \in {"hold", "Hold", "smoke"})
        => /\ raw.grill \in {"s:unknown", "s:Unknown"} => view.grill_sensor = Some(0)
           /\ raw.grill \in {NULL, "s:abc", "list"} => view.grill_sensor = None
           /\ (raw.f \in {"s:unknown", "s:Unknown"} /\ raw.nt = ABSENT)
                => view.probe_sensor = Some(0)
           /\ (raw.f \in {NULL, "s:abc", "list"} /\ raw.nt = ABSENT)
                => view.probe_sensor = None
           /\ Raises \notin {view.grill_sensor, view.probe_sensor}

C20_FallbackReached ==
    /\ view.derived
    /\ raw.psp = "s:unknown"
    /\ raw.grill = "n:150"
    /\ view.target_temperature = Some(150)
    /\ view.setpoint = Some(150)

\* C21: for each relay, when the output-pins map has no entry for it, or the
\* payload has no output-pins map, every consumer-facing value of the relay
\* (binary sensor is_on and state, output-pin sensor value, thermostat
\* attribute) is absent, never false; a value is true or false only when the
\* key is present.
C21_MissingPinIsAbsent ==
    view.derived
        => \A r \in Relays :
               (raw.outpins = "absent" \/ raw.pins[r] = ABSENT)
                   => /\ view.is_on[r] = "absent"
                      /\ view.state[r] = "absent"
                      /\ view.native_value[r] = "absent"
                      /\ view.attribute[r] = "absent"

\* The same on the binary sensor and the output-pin sensor alone.
C21_SensorsMissingPinIsAbsent ==
    view.derived
        => \A r \in Relays :
               (raw.outpins = "absent" \/ raw.pins[r] = ABSENT)
                   => /\ view.is_on[r] = "absent"
                      /\ view.state[r] = "absent"
                      /\ view.native_value[r] = "absent"

C22_DefaultReached ==
    /\ view.derived
    /\ raw.pmode = "s:abc"
    /\ raw.last_pmode = "n:-1"
    /\ view.pmode_level = 1

\* C23: priming with grams that is not a positive integer (the grams number
\* entity holds 0) is rejected with an error before any request is made, on
\* the button's path to PiFireClient.prime_pellets.
C23_NonPositiveGramsRejected ==
    (wire.caller = "button.prime" /\ grams_of(grams_state) <= 0)
        => /\ ~wire.sent
           /\ wire.outcome = "error"

\* C24: commands never change the coordinator's poll state themselves: the
\* stored payload, the success flag and the update interval change only in a
\* step that ends a poll cycle (or when a retried setup constructs a new
\* coordinator), and a cycle that ends successfully replaces the stored
\* payload by the payload it fetched, with the hopper section it fetched.
C24_PollStateOnlyInCycle ==
    [][ /\ (<<data, last_update_success, update_interval>>'
               # <<data, last_update_success, update_interval>>)
            => (SetupRetry \/ \E c \in InFlight : CycleEnds(c))
        /\ \A c \in InFlight :
               CycleSucceeds(c) => data' = [cycles[c].current_data EXCEPT !.hopper = "level"]
      ]_vars

\* A command sent its request and ended, with a payload stored by a poll.
C24_Witness ==
    /\ data # NoData
    /\ last_cycle.result = "ok"
    /\ \E k \in Callers : cmds[k].pc \in {"ret_ok", "ret_err"} /\ cmds[k].sent = 1

\* C25: a poll cycle that fails leaves the update interval as it was; the
\* interval changes only in a step that ends a cycle successfully; and after
\* any sequence of polls the interval is the one the mode of the most recent
\* successful poll requires, or Slow when no poll has succeeded.
C25_IntervalOfLastSuccess ==
    [][ /\ \A c \in InFlight : CycleFails(c) => update_interval' = update_interval
        /\ update_interval' # update_interval => \E c \in InFlight : CycleSucceeds(c)
        /\ update_interval' = IF data' = NoData THEN SLOW_UPDATE_INTERVAL
                               ELSE IF data'.status = "map" /\ data'.mode \notin {ABSENT, NULL}
                                       /\ Lower(data'.mode) \in FAST_UPDATE_MODES
                                    THEN FAST_UPDATE_INTERVAL
                               ELSE SLOW_UPDATE_INTERVAL
      ]_vars

\* The frame part alone: a failed cycle keeps the interval and only a
\* successful cycle changes it.
C25_FailureKeepsInterval ==
    [][ /\ \A c \in InFlight : CycleFails(c) => update_interval' = update_interval
        /\ update_interval' # update_interval => \E c \in InFlight : CycleSucceeds(c)
      ]_vars

\* C26: a discovery key is in the discovered-key set only if its entity was
\* handed to the add-entities callback without error: when announcing an
\* entity, or a batch of new probe entities, raises, the keys are not
\* recorded (and so are retried on the next scan).
C26_RecordedOnlyIfAnnounced ==
    \A k \in created : announced[k] > 0

\* The same for the three single entities alone.
C26_SinglesRecordedOnlyIfAnnounced ==
    \A k \in created \cap {"recipe", "runtime", "pellet_level"} : announced[k] > 0

\* C27: selecting a level on the P-mode selector sends a device request only
\* when the option is one of P0..P9 and the stored status has mode "hold" in
\* any letter case; in every other case the selection ends with an error, no
\* request is sent and no refresh is requested.
C27_PModeNeedsHold ==
    wire.caller = "select.pmode"
        => /\ wire.sent <=> /\ wire.arg \in PModeOptions
                            /\ data # NoData
                            /\ data.status = "map"
                            /\ data.mode \in {"hold", "Hold"}
           /\ ~wire.sent => (wire.outcome = "error" /\ ~wire.refresh)

\* A valid option is selected while the stored mode is stop: rejected.
C27_Witness ==
    /\ wire.caller = "select.pmode"
    /\ wire.arg = "P5"
    /\ data # NoData
    /\ data.status = "map"
    /\ data.mode = "stop"
    /\ ~wire.sent
    /\ wire.outcome = "error"

\* A valid option is selected in hold mode: the request is sent.
C27_SentReached ==
    /\ wire.caller = "select.pmode"
    /\ wire.arg = "P5"
    /\ data # NoData
    /\ data.mode = "Hold"
    /\ wire.sent
    /\ wire.refresh

\* C28: setting a value on the setpoint number entity stores it as the
\* displayed setpoint before the hold command is sent, and a failed command
\* does not restore the previous value; after every coordinator update whose
\* payload carries a numeric setpoint (PSP, else P.Grill) the displayed
\* setpoint equals that value, and an update without a numeric setpoint
\* leaves it unchanged.
C28_DisplayedSetpoint ==
    [][ /\ \A v \in SetValues :
               SetValueStore(v) => /\ setpoint_entity'.last_set_value = Some(v)
                                   /\ wire' = wire
        /\ \A r \in Responses :
               SetValueAnswer(r)
                   => /\ setpoint_entity'.last_set_value = setpoint_entity.last_set_value
                      /\ wire'.sent
        /\ \A d \in SetpointPayloads :
               (HandleUpdate(d) /\ setpoint_entity.added)
                   => setpoint_entity'.last_set_value =
                         IF d.psp \in {"n:0", "n:150", "n:225", "s:225"}
                         THEN Some(FloatNumber(d.psp))
                         ELSE IF d.grill \in {"n:0", "n:150", "n:225", "s:225"}
                              THEN Some(FloatNumber(d.grill))
                         ELSE setpoint_entity.last_set_value
      ]_vars

\* The hold command for 200 failed and the entity still displays 200, after
\* an update had shown 150.
C28_Witness ==
    /\ wire.caller = "number.setpoint"
    /\ wire.outcome = "error"
    /\ wire.arg = "200"
    /\ raw # NoRaw
    /\ raw.psp = "n:150"
    /\ setpoint_entity.last_set_value = Some(200)

\* A set value is replaced by the payload's setpoint at the next update.
C28_UpdateReached ==
    /\ wire.caller = "number.setpoint"
    /\ wire.arg = "200"
    /\ raw # NoRaw
    /\ raw.psp = "n:225"
    /\ setpoint_entity.last_set_value = Some(225)

\* C29: for one configured device every request sent (status poll, hopper
\* poll and every command of every entity) addresses the base URL the
\* client addresses, and each command uses the method and path the API
\* client defines for it: GET /api/set/mode/{mode}, GET
\* /api/set/mode/hold/{temp}, GET /api/set/mode/prime/{grams}/{next}, GET
\* /api/set/pmode/{n}, GET /api/set/smokeplus/{true|false}, POST
\* /api/cmd/{restart|reboot|shutdown}.
C29_OneBaseOneTable ==
    wire.sent
        => /\ \A i \in 1..Len(wire.requests) : wire.requests[i].base = ClientBase(entry_data)
           /\ wire.caller = "coordinator"
                => /\ wire.requests[1] = Request("GET", ClientBase(entry_data), "/api/current")
                   /\ wire.requests[2] = Request("GET", ClientBase(entry_data), "/api/hopper")
           /\ wire.caller = "select.mode"
                => /\ wire.requests[1].method = "GET"
                   /\ wire.arg # "Hold"
                        => wire.requests[1].path = "/api/set/mode/" \o option_lower(wire.arg)
                   /\ wire.arg = "Hold"
                        => \E t \in HoldTemps :
                               wire.requests[1].path = "/api/set/mode/hold/" \o t
           /\ wire.caller \in {"select.pmode", "switch.pmode"}
                => /\ wire.requests[1].method = "GET"
                   /\ \E n \in 0..9 :
                          wire.requests[1].path = "/api/set/pmode/" \o ToString(n)
           /\ wire.caller = "switch.smoke_plus"
                => /\ wire.requests[1].method = "GET"
                   /\ wire.requests[1].path = "/api/set/smokeplus/" \o wire.arg
           /\ wire.caller = "number.setpoint"
                => /\ wire.requests[1].method = "GET"
                   /\ wire.requests[1].path = "/api/set/mode/hold/" \o wire.arg
           /\ wire.caller = "button.prime"
                => /\ wire.requests[1].method = "GET"
                   /\ \E g \in {0, 1, 100}, m \in {"stop", "hold"} :
                          wire.requests[1].path
                              = "/api/set/mode/prime/" \o ToString(g) \o "/" \o m
           /\ wire.caller = "button.system"
                => /\ wire.requests[1].method = "POST"
                   /\ wire.requests[1].path \in SystemEndpoints

\* The same for the requests made through PiFireClient alone: the polls, the
\* P-mode switch, the setpoint and the prime button.
C29_ClientRequestsConform ==
    (wire.sent /\ wire.caller \in {"coordinator", "switch.pmode", "number.setpoint",
                                     "button.prime"})
        => /\ \A i \in 1..Len(wire.requests) :
                  /\ wire.requests[i].base = ClientBase(entry_data)
                  /\ wire.requests[i].method = "GET"
           /\ wire.caller = "switch.pmode"
                => wire.requests[1].path = "/api/set/pmode/" \o wire.arg
           /\ wire.caller = "number.setpoint"
                => wire.requests[1].path = "/api/set/mode/hold/" \o wire.arg

\* C30: for every payload the P-mode enable switch and the P-mode level
\* selector agree: the switch reports off exactly when the selector reports
\* P0, and on exactly when the selector reports a level in P1..P9.
C30_SwitchAgreesWithSelector ==
    view.derived
        => /\ view.pmode_is_on = "false" <=> view.pmode_level = 0
           /\ view.pmode_is_on = "true" <=> view.pmode_level \in 1..9

====
